---- MODULE Spec2Model ----
(***************************************************************************)
(* Model of Scripts/prepare_ground_truth_dataset.py: the band table, the   *)
(* two real-dataset adapters, the synthetic generator and main().          *)
(*                                                                         *)
(* Distances are integers in ticks of 0.00001 m (100000 ticks per metre),   *)
(* so that round(x, 4) is a real operation: it rounds to a multiple of 10  *)
(* ticks.  An Optional[float] that is None is the integer None; an         *)
(* Optional[str] that is None is the string NoBand.                        *)
(***************************************************************************)
EXTENDS Integers, Sequences, FiniteSets, TLC

\* ------------------------------------------------------------------ bounds
\* BAND_TARGETS scaled down: 2000 -> TargetLarge, 1500 -> TargetSmall.
TargetLarge == 1
TargetSmall == 1
\* size of the log-normal draw arrays (20000 / 20000 / 50000 in the source)
DrawCount == 3
\* seeds explored: 0..MaxSeed
MaxSeed == 2
\* frames a real corpus holds at most, per adapter
MaxArkFrames == 2
MaxDiodeFrames == 3
\* randint ranges of the synthetic frame ids (500/200, 50, 5000/300 in the source)
MaxSceneNum == 2
MaxScanNum == 1
MaxFrameNum == 2
\* pixels of a patch replaced by an invalid value
MaxHoles == 2

\* ------------------------------------------------------- units and Optional
None == -1
NoBand == "None"

Max(a, b) == IF a >= b THEN a ELSE b

\* round(x, 4): to the nearest multiple of 10 ticks, ties to even
Round4(x) ==
    LET q == x \div 10
        r == x % 10
    IN  IF r < 5 THEN q * 10
        ELSE IF r > 5 THEN (q + 1) * 10
        ELSE IF q % 2 = 0 THEN q * 10 ELSE (q + 1) * 10

\* --------------------------------------------------------------- band table
BandOrder == <<"close", "near_mid", "mid", "far_mid", "far", "long">>
Bands == {BandOrder[i] : i \in 1..Len(BandOrder)}

DISTANCE_BANDS ==
    [close    |-> <<50000, 300000>>,
     near_mid |-> <<300000, 800000>>,
     mid      |-> <<800000, 1500000>>,
     far_mid  |-> <<1500000, 5000000>>,
     far      |-> <<5000000, 15000000>>,
     long     |-> <<15000000, 35000000>>]

BAND_TARGETS ==
    [close    |-> TargetLarge,
     near_mid |-> TargetLarge,
     mid      |-> TargetSmall,
     far_mid  |-> TargetSmall,
     far      |-> TargetSmall,
     long     |-> TargetSmall]

RECURSIVE SumTargets(_)
SumTargets(i) == IF i = 0 THEN 0 ELSE BAND_TARGETS[BandOrder[i]] + SumTargets(i - 1)
total_target == SumTargets(Len(BandOrder))

ZeroCounts == [b \in Bands |-> 0]

\* the test of line 109 with the edges swapped to exclusive low, inclusive high
InBandUpperInclusive(d, lo, hi) == lo < d /\ d <= hi

\* line 109: lo <= distance_m < hi
InBand(d, lo, hi) == lo <= d /\ d < hi

RECURSIVE ClassifyFrom(_, _)
ClassifyFrom(d, i) ==
    IF i > Len(BandOrder) THEN NoBand
    ELSE IF InBand(d, DISTANCE_BANDS[BandOrder[i]][1], DISTANCE_BANDS[BandOrder[i]][2])
         THEN BandOrder[i]
         ELSE ClassifyFrom(d, i + 1)

classify_distance(d) == ClassifyFrom(d, 1)

\* ------------------------------------------------------ depth statistics
\* A depth map is [h, w, px]: px holds the h * w pixels row by row, each a
\* depth in ticks or one of the three floats that are not numbers of metres.
NaN == -7
PosInf == -8
NegInf == -9

IsFinite(p) == p \notin {NaN, PosInf, NegInf}

\* p > x and p < x as IEEE compares them: false with NaN on either side
Gt(p, x) == IF p = NaN \/ p = NegInf THEN FALSE ELSE IF p = PosInf THEN TRUE ELSE p > x
Lt(p, x) == IF p = NaN \/ p = PosInf THEN FALSE ELSE IF p = NegInf THEN TRUE ELSE p < x

\* the filter without its lower threshold
ValidNoFloor(p) == Lt(p, 100000000) /\ IsFinite(p)

\* lines 126, 141: (patch > 0.1) & (patch < 1000.0) & np.isfinite(patch)
Valid(p) == Gt(p, 10000) /\ Lt(p, 100000000) /\ IsFinite(p)

Min(a, b) == IF a <= b THEN a ELSE b

\* depth_map[r0:r1, c0:c1], rows and columns counted from 0, flattened row by row
Slice(m, r0, r1, c0, c1) ==
    LET nr == Max(0, r1 - r0)
        nc == Max(0, c1 - c0)
    IN  [i \in 1..(nr * nc) |->
            m.px[(r0 + ((i - 1) \div nc)) * m.w + (c0 + ((i - 1) % nc)) + 1]]

\* the boolean-mask selection arr[mask]: the valid pixels in order
ValidOf(region) == SelectSeq(region, Valid)

RECURSIVE InsertSorted(_, _)
InsertSorted(srt, x) ==
    IF srt = <<>> THEN <<x>>
    ELSE IF x <= Head(srt) THEN <<x>> \o srt
    ELSE <<Head(srt)>> \o InsertSorted(Tail(srt), x)

RECURSIVE Sorted(_)
Sorted(s) == IF s = <<>> THEN <<>> ELSE InsertSorted(Sorted(Tail(s)), Head(s))

\* np.median: the middle of the sorted values, the mean of the two middle
\* ones when their number is even (a half tick is dropped)
Median(s) ==
    LET srt == Sorted(s)
        n == Len(s)
    IN  IF n % 2 = 1 THEN srt[(n + 1) \div 2]
        ELSE (srt[n \div 2] + srt[n \div 2 + 1]) \div 2

\* np.percentile(s, 25 * q4), linear interpolation: the value at the
\* position (n - 1) * q4 / 4 of the sorted values
Percentile(s, q4) ==
    LET srt == Sorted(s)
        pos == (Len(s) - 1) * q4
        lo == pos \div 4 + 1
        rem == pos % 4
    IN  IF rem = 0 THEN srt[lo]
        ELSE srt[lo] + ((srt[lo + 1] - srt[lo]) * rem) \div 4

\* lines 116-123: the patch around (h // 2, w // 2), clipped at the edges
CenterPatch(depth_map, patch_radius) ==
    LET h == depth_map.h
        w == depth_map.w
        cy == h \div 2
        cx == w \div 2
        r == patch_radius
    IN  Slice(depth_map, Max(0, cy - r), Min(h, cy + r + 1),
              Max(0, cx - r), Min(w, cx + r + 1))

\* lines 114-130
sample_center_patch(depth_map, patch_radius) ==
    LET valid == ValidOf(CenterPatch(depth_map, patch_radius))
    IN  IF Len(valid) < 3 THEN None ELSE Median(valid)

\* lines 133-145: <<p25, p75>> of the centre 30% region
compute_percentiles(depth_map) ==
    LET h == depth_map.h
        w == depth_map.w
        roi_h == (h * 3) \div 10
        roi_w == (w * 3) \div 10
        y0 == (h - roi_h) \div 2
        x0 == (w - roi_w) \div 2
        roi == Slice(depth_map, y0, y0 + roi_h, x0, x0 + roi_w)
        valid == ValidOf(roi)
    IN  IF Len(valid) < 10 THEN <<None, None>>
        ELSE <<Percentile(valid, 1), Percentile(valid, 3)>>

\* ------------------------------------------------------------ the sample
\* GroundTruthSample, lines 88-103 (intrinsics, image size and the tier
\* file names are constants of the dataset and are left out).
Sample(dataset, frame_id, center, lidar, p25, p75, scene_type, band) ==
    [dataset |-> dataset,
     frame_id |-> frame_id,
     ground_truth_center_m |-> center,
     lidar_center_m |-> lidar,
     ground_truth_p25_m |-> p25,
     ground_truth_p75_m |-> p75,
     scene_type |-> scene_type,
     distance_band |-> band]

\* A frame_id is the tuple <<format, scene, scan, frame>> of the f-string
\* that builds it: two ids are the same string iff the tuples are equal.
FrameId(fmt, scene, scan, frame) == <<fmt, scene, scan, frame>>

\* the quota test with the comparison off by one
QuotaFullStrict(counts, band) == counts[band] > BAND_TARGETS[band]

\* lines 232, 368, 473, 515, 554: band_counts[band] >= BAND_TARGETS[band]
QuotaFull(counts, band) == counts[band] >= BAND_TARGETS[band]

\* ------------------------------------------------- the two random streams
\* random.Random(seed) and np.random.RandomState(seed) are deterministic
\* generators; each is a linear congruential stream here.  A draw advances
\* the state and reads the new state.
LcgNext(s) == (s * 1229 + 1) % 2048

RandBelow(s, n) == (s \div 16) % n

\* a generator that keeps the state it is handed instead of seeding
NewRandomUnseeded(sd, stale) == stale

\* line 448: rng = random.Random(seed)
NewRandom(sd, stale) == (sd * 37 + 11) % 2048

\* line 449: np_rng = np.random.RandomState(seed)
NewRandomState(sd) == (sd * 101 + 5) % 2048

RECURSIVE Advance(_, _)
Advance(s, n) == IF n <= 0 THEN s ELSE Advance(LcgNext(s), n - 1)

\* rng.randint(a, b)
RandInt(s, a, b) == a + RandBelow(s, b - a + 1)

\* rng.uniform(a, b) for the spread factors, in percent: low, middle, high
UniformPct(s, a, b) == a + RandBelow(s, 3) * ((b - a) \div 2)

\* rng.uniform(lo, hi) of line 585: lo + (hi - lo) * random(); random() is in
\* [0, 1), so the draw is the low edge, the middle, or just below the high edge
UniformDist(s, lo, hi) ==
    LET k == RandBelow(s, 3)
    IN  IF k = 0 THEN lo ELSE IF k = 1 THEN lo + (hi - lo) \div 2 ELSE hi - 4

\* np_rng.normal(0, sigma) in units of sigma: -2..2
NormalZ(s) == RandBelow(s, 5) - 2

\* rng.shuffle(x): for i in reversed(range(1, len(x))): j = randbelow(i + 1)
RECURSIVE ShuffleFrom(_, _, _)
ShuffleFrom(x, i, s) ==
    IF i < 2 THEN x
    ELSE LET s1 == LcgNext(s)
             j == 1 + RandBelow(s1, i)
         IN  ShuffleFrom([x EXCEPT ![i] = x[j], ![j] = x[i]], i - 1, s1)

\* line 632: rng.shuffle(samples)
Shuffle(x, s) == ShuffleFrom(x, Len(x), s)

\* --------------------------------------------- the log-normal draw arrays
\* The values a log-normal draw takes, per distribution: some outside the
\* range the array is truncated to, some next to a band's upper edge.
ArkLogNormal == <<30000, 120000, 250000, 299996, 450000, 999996, 1200000>>
DiodeIndoorLogNormal == <<40000, 180000, 300000, 799996, 1100000, 1499996, 1600000>>
DiodeOutdoorLogNormal ==
    <<300000, 600000, 1400000, 2500000, 4999996, 9000000, 20000000, 34999996, 40000000>>

\* np_rng.lognormal(..., size=n) then the truncation arr[(arr >= lo) & (arr < hi)]:
\* the kept draws in order, and the stream after the n draws
RECURSIVE DrawTruncated(_, _, _, _, _)
DrawTruncated(s, n, table, lo, hi) ==
    IF n = 0 THEN [arr |-> <<>>, np_rng |-> s]
    ELSE LET s1 == LcgNext(s)
             d == table[1 + RandBelow(s1, Len(table))]
             rest == DrawTruncated(s1, n - 1, table, lo, hi)
         IN  [arr |-> (IF d >= lo /\ d < hi THEN <<d>> ELSE <<>>) \o rest.arr,
              np_rng |-> rest.np_rng]

\* lines 477, 592: 0.01 if d < 3.0 else (0.03 if d < 5.0 else 0.08), in percent
LidarNoisePct(d) == IF d < 300000 THEN 1 ELSE IF d < 500000 THEN 3 ELSE 8

\* lines 478, 593: d * (1.0 + np_rng.normal(0, pct))
LidarReading(d, z) == d + (d \div 100) * (LidarNoisePct(d) * z)

\* lines 481-483 and the like: spread = d * u; p25 = max(floor, d - spread * below);
\* p75 = d + spread * above  (u in percent, below and above in tenths)
SpreadP25(d, u, floor, below) == Max(floor, d - (((d \div 100) * u) * below) \div 10)
\* the upper spread taken off the centre instead of added to it
SpreadP75Below(d, u, above) == d - (((d \div 100) * u) * above) \div 10
SpreadP75(d, u, above) == d + (((d \div 100) * u) * above) \div 10

\* ------------------------------------------------------------------- state
VARIABLES
    mode,          \* "synthetic" (args.synthetic or no --data-dir) or "real"
    seed,          \* args.seed
    pc,            \* where main() is
    band_counts,   \* main's band_counts (line 694)
    all_samples,   \* main's all_samples (line 695)
    samples,       \* the list the running adapter builds (lines 170, 319)
    frame_no,      \* frames the running adapter has walked
    raised,        \* whether the frame handled last ended in the except clause
    offered,       \* the centre of the frame handled last and where its body ended
    bi,            \* position of the backfill loop of line 723 in the synthetic list
    gen,           \* the locals of the running generate_synthetic_manifest call
    call,          \* which call of the generator this is, when it is called twice
    first_result,  \* the list the first of two calls returned
    cd,            \* a distance handed to classify_distance
    cres,          \* what classify_distance returned for cd
    pm,            \* a depth map whose pixels are all valid
    pm_holed,      \* pm with some pixels replaced by an invalid value
    pres           \* <<sample_center_patch(pm), sample_center_patch(pm_holed)>>

vars == <<mode, seed, pc, band_counts, all_samples, samples, frame_no, raised, offered, bi, gen,
          call, first_result, cd, cres, pm, pm_holed, pres>>

mainVars == <<mode, seed, pc, band_counts, all_samples, samples, frame_no, raised, offered, bi>>
harnessVars == <<call, first_result>>
classifyVars == <<cd, cres>>
patchVars == <<pm, pm_holed, pres>>

Seeds == 0..MaxSeed
\* no frame has been handled in the running adapter
NoOffer == [gt_center |-> -1, left_at |-> "none"]
\* no depth map is held
NoMap == [h |-> 0, w |-> 0, px |-> <<>>]
\* args.output, the directory main() creates at line 685 and hands on
output_dir == "out_a"
\* the directories a call of the generator on its own may be given
OutputDirs == {"out_a", "out_b"}

\* ------------------------------------------- generate_synthetic_manifest
\* no call is running
GenIdle ==
    [pc |-> "idle", output_dir |-> "", rng |-> 0, np_rng |-> 0,
     band_counts |-> ZeroCounts, samples |-> <<>>, dists |-> <<>>, di |-> 1,
     fb |-> 1, fill_entry |-> 0, fill_iters |-> 0]

\* lines 448-467: seed the two streams, empty list and counts, draw and
\* truncate the first array, shuffle a throw-away index list
GenCall(sd, out_dir, stale) ==
    LET drawn == DrawTruncated(NewRandomState(sd), DrawCount, ArkLogNormal, 50000, 1000000)
    IN  [pc |-> "pass1", output_dir |-> out_dir,
         rng |-> Advance(NewRandom(sd, stale), Len(drawn.arr) - 1),
         np_rng |-> drawn.np_rng,
         band_counts |-> ZeroCounts, samples |-> <<>>,
         dists |-> drawn.arr, di |-> 1,
         fb |-> 1, fill_entry |-> 0, fill_iters |-> 0]

\* lines 469-502: one iteration of the ARKitScenes-like loop
Pass1Step(g) ==
    LET d == g.dists[g.di]
        band == classify_distance(d)
        np1 == LcgNext(g.np_rng)
        r1 == LcgNext(g.rng)
        r2 == LcgNext(r1)
        r3 == LcgNext(r2)
        u == UniformPct(r1, 30, 80)
        smp == Sample("arkitscenes",
                      FrameId("arkitscenes_S_F", RandInt(r2, 1, MaxSceneNum), 0,
                              RandInt(r3, 1, MaxFrameNum)),
                      Round4(d),
                      Round4(LidarReading(d, NormalZ(np1))),
                      Round4(SpreadP25(d, u, 30000, 4)),
                      Round4(SpreadP75(d, u, 6)),
                      "indoor", band)
    IN  IF band = NoBand THEN [g EXCEPT !.di = @ + 1]
        ELSE IF QuotaFull(g.band_counts, band) THEN [g EXCEPT !.di = @ + 1]
        ELSE [g EXCEPT !.di = @ + 1, !.rng = r3, !.np_rng = np1,
                       !.samples = Append(@, smp),
                       !.band_counts[band] = @ + 1]

\* lines 511-540 and 550-579: one iteration of a DIODE-like loop
DiodeStep(g, env, ulo, uhi, floor, below, above) ==
    LET d == g.dists[g.di]
        band == classify_distance(d)
        r1 == LcgNext(g.rng)
        r2 == LcgNext(r1)
        r3 == LcgNext(r2)
        r4 == LcgNext(r3)
        u == UniformPct(r1, ulo, uhi)
        smp == Sample("diode",
                      FrameId(IF env = "indoor" THEN "diode_indoor_scene_S_scan_C_F"
                                               ELSE "diode_outdoor_scene_S_scan_C_F",
                              RandInt(r2, 1, MaxSceneNum), RandInt(r3, 1, MaxScanNum),
                              RandInt(r4, 1, MaxFrameNum)),
                      Round4(d), None,
                      Round4(SpreadP25(d, u, floor, below)),
                      Round4(SpreadP75(d, u, above)),
                      env, band)
    IN  IF band = NoBand THEN [g EXCEPT !.di = @ + 1]
        ELSE IF QuotaFull(g.band_counts, band) THEN [g EXCEPT !.di = @ + 1]
        ELSE [g EXCEPT !.di = @ + 1, !.rng = r4,
                       !.samples = Append(@, smp),
                       !.band_counts[band] = @ + 1]

Pass2Step(g) == DiodeStep(g, "indoor", 20, 60, 30000, 4, 6)
Pass3Step(g) == DiodeStep(g, "outdoor", 40, 120, 50000, 3, 7)

\* lines 506-509: the first loop is over; draw and truncate the DIODE indoor array
Pass1End(g) ==
    LET drawn == DrawTruncated(g.np_rng, DrawCount, DiodeIndoorLogNormal, 50000, 1500000)
    IN  [g EXCEPT !.pc = "pass2", !.np_rng = drawn.np_rng, !.dists = drawn.arr, !.di = 1]

\* lines 545-548: the second loop is over; draw and truncate the DIODE outdoor array
Pass2End(g) ==
    LET drawn == DrawTruncated(g.np_rng, DrawCount, DiodeOutdoorLogNormal, 500000, 35000000)
    IN  [g EXCEPT !.pc = "pass3", !.np_rng = drawn.np_rng, !.dists = drawn.arr, !.di = 1]

\* line 583: the third loop is over; enter the fill loop at the first band
Pass3End(g) ==
    [g EXCEPT !.pc = "fill", !.dists = <<>>, !.di = 1, !.fb = 1,
              !.fill_entry = g.band_counts[BandOrder[1]], !.fill_iters = 0]

\* a fill loop that stops one sample short
FillNeededShort(counts, band) == counts[band] + 1 < BAND_TARGETS[band]

\* line 584: while band_counts[band_name] < BAND_TARGETS[band_name]
FillNeeded(counts, band) == counts[band] < BAND_TARGETS[band]

\* a LiDAR reading simulated for any sample below 10 m
HasLidarAnyDataset(dataset, d) == d < 1000000

\* line 591: dataset == "arkitscenes" and d < 10.0
HasLidar(dataset, d) == dataset = "arkitscenes" /\ d < 1000000

\* lines 585-609: what one iteration of the fill loop of band BandOrder[g.fb]
\* draws: the sample it builds and the two streams after the draws
FillDraw(g) ==
    LET band_name == BandOrder[g.fb]
        lo == DISTANCE_BANDS[band_name][1]
        hi == DISTANCE_BANDS[band_name][2]
        r1 == LcgNext(g.rng)
        d == UniformDist(r1, lo, hi)
        \* d > 15.0 or rng.random() < 0.3: random() is drawn only when d <= 15.0
        r2 == IF d > 1500000 THEN r1 ELSE LcgNext(r1)
        is_outdoor == d > 1500000 \/ RandBelow(r2, 10) < 3
        \* rng.choice is drawn only when not (is_outdoor or d > 10.0)
        chooses == ~(is_outdoor \/ d > 1000000)
        r3 == IF chooses THEN LcgNext(r2) ELSE r2
        dataset == IF ~chooses THEN "diode"
                   ELSE IF RandBelow(r3, 2) = 0 THEN "arkitscenes" ELSE "diode"
        scene_type == IF is_outdoor THEN "outdoor" ELSE "indoor"
        has_lidar == HasLidar(dataset, d)
        np1 == IF has_lidar THEN LcgNext(g.np_rng) ELSE g.np_rng
        lidar_reading == IF has_lidar THEN Round4(LidarReading(d, NormalZ(np1))) ELSE None
        r4 == LcgNext(r3)
        u == UniformPct(r4, 30, 100)
        r5 == LcgNext(r4)
        r6 == LcgNext(r5)
        r7 == LcgNext(r6)
        fmt == IF dataset = "arkitscenes" THEN "arkitscenes_indoor_S_C_F"
               ELSE IF is_outdoor THEN "diode_outdoor_S_C_F" ELSE "diode_indoor_S_C_F"
    IN  [sample |-> Sample(dataset,
                           FrameId(fmt, RandInt(r5, 1, MaxSceneNum),
                                   RandInt(r6, 1, MaxScanNum), RandInt(r7, 1, MaxFrameNum)),
                           Round4(d), lidar_reading,
                           Round4(SpreadP25(d, u, 30000, 4)),
                           Round4(SpreadP75(d, u, 6)),
                           scene_type, band_name),
         rng |-> r7, np_rng |-> np1]

\* the end of a fill iteration without the count of line 623
FillAppendNoCount(g, drawn) ==
    [g EXCEPT !.rng = drawn.rng, !.np_rng = drawn.np_rng,
              !.samples = Append(@, drawn.sample),
              !.fill_iters = @ + 1]

\* lines 610-623: samples.append(...); band_counts[band_name] += 1
FillAppend(g, drawn) ==
    [g EXCEPT !.rng = drawn.rng, !.np_rng = drawn.np_rng,
              !.samples = Append(@, drawn.sample),
              !.band_counts[BandOrder[g.fb]] = @ + 1,
              !.fill_iters = @ + 1]

\* lines 585-623: one iteration of the fill loop
FillStep(g) == FillAppend(g, FillDraw(g))

\* line 583: the while loop of one band is over; go to the next band
FillNextBand(g) ==
    [g EXCEPT !.fb = @ + 1,
              !.fill_entry = IF g.fb < Len(BandOrder)
                             THEN g.band_counts[BandOrder[g.fb + 1]] ELSE 0,
              !.fill_iters = 0]

\* lines 625-633: all bands done; shuffle the list and return it
GenReturn(g) ==
    [g EXCEPT !.pc = "returned",
              !.samples = Shuffle(g.samples, g.rng),
              !.rng = Advance(g.rng, Len(g.samples) - 1)]

\* the next step of a running call
GenStep(g) ==
    IF g.pc = "pass1" THEN (IF g.di <= Len(g.dists) THEN Pass1Step(g) ELSE Pass1End(g))
    ELSE IF g.pc = "pass2" THEN (IF g.di <= Len(g.dists) THEN Pass2Step(g) ELSE Pass2End(g))
    ELSE IF g.pc = "pass3" THEN (IF g.di <= Len(g.dists) THEN Pass3Step(g) ELSE Pass3End(g))
    ELSE IF g.pc = "fill" THEN
        (IF g.fb > Len(BandOrder) THEN GenReturn(g)
         ELSE IF FillNeeded(g.band_counts, BandOrder[g.fb]) THEN FillStep(g)
         ELSE FillNextBand(g))
    ELSE g

\* a whole call, from its first step to its return
RECURSIVE RunGen(_)
RunGen(g) == IF g.pc \in {"idle", "returned"} THEN g ELSE RunGen(GenStep(g))

\* generate_synthetic_manifest(output_dir, seed) called and run to its return
generate_synthetic_manifest(out_dir, sd, stale) == RunGen(GenCall(sd, out_dir, stale))

GenRunning == pc = "gen" /\ gen.pc \notin {"idle", "returned"}

GenPass1Step ==
    /\ GenRunning /\ gen.pc = "pass1" /\ gen.di <= Len(gen.dists)
    /\ gen' = Pass1Step(gen)
    /\ UNCHANGED <<mainVars, harnessVars, classifyVars, patchVars>>

GenPass1End ==
    /\ GenRunning /\ gen.pc = "pass1" /\ gen.di > Len(gen.dists)
    /\ gen' = Pass1End(gen)
    /\ UNCHANGED <<mainVars, harnessVars, classifyVars, patchVars>>

GenPass2Step ==
    /\ GenRunning /\ gen.pc = "pass2" /\ gen.di <= Len(gen.dists)
    /\ gen' = Pass2Step(gen)
    /\ UNCHANGED <<mainVars, harnessVars, classifyVars, patchVars>>

GenPass2End ==
    /\ GenRunning /\ gen.pc = "pass2" /\ gen.di > Len(gen.dists)
    /\ gen' = Pass2End(gen)
    /\ UNCHANGED <<mainVars, harnessVars, classifyVars, patchVars>>

GenPass3Step ==
    /\ GenRunning /\ gen.pc = "pass3" /\ gen.di <= Len(gen.dists)
    /\ gen' = Pass3Step(gen)
    /\ UNCHANGED <<mainVars, harnessVars, classifyVars, patchVars>>

GenPass3End ==
    /\ GenRunning /\ gen.pc = "pass3" /\ gen.di > Len(gen.dists)
    /\ gen' = Pass3End(gen)
    /\ UNCHANGED <<mainVars, harnessVars, classifyVars, patchVars>>

GenFillStep ==
    /\ GenRunning /\ gen.pc = "fill" /\ gen.fb <= Len(BandOrder)
    /\ FillNeeded(gen.band_counts, BandOrder[gen.fb])
    /\ gen' = FillStep(gen)
    /\ UNCHANGED <<mainVars, harnessVars, classifyVars, patchVars>>

GenFillNextBand ==
    /\ GenRunning /\ gen.pc = "fill" /\ gen.fb <= Len(BandOrder)
    /\ ~FillNeeded(gen.band_counts, BandOrder[gen.fb])
    /\ gen' = FillNextBand(gen)
    /\ UNCHANGED <<mainVars, harnessVars, classifyVars, patchVars>>

GenShuffleReturn ==
    /\ GenRunning /\ gen.pc = "fill" /\ gen.fb > Len(BandOrder)
    /\ gen' = GenReturn(gen)
    /\ UNCHANGED <<mainVars, harnessVars, classifyVars, patchVars>>

GenNext ==
    \/ GenPass1Step \/ GenPass1End
    \/ GenPass2Step \/ GenPass2End
    \/ GenPass3Step \/ GenPass3End
    \/ GenFillStep \/ GenFillNextBand
    \/ GenShuffleReturn

\* ------------------------------------ the generator called twice in a row
\* the first call of generate_synthetic_manifest(output_dir, seed)
InitGen ==
    /\ mode = "synthetic"
    /\ seed \in Seeds
    /\ pc = "gen"
    /\ band_counts = ZeroCounts
    /\ all_samples = <<>>
    /\ samples = <<>>
    /\ frame_no = 0
    /\ raised = FALSE
    /\ offered = NoOffer
    /\ bi = 1
    /\ \E o \in OutputDirs : gen = GenCall(seed, o, 0)
    /\ call = 1
    /\ first_result = <<>>
    /\ cd = 0
    /\ cres = "unset"
    /\ pm = NoMap
    /\ pm_holed = NoMap
    /\ pres = <<>>

\* the first call has returned: keep its list and call again with the same seed
GenCallAgain ==
    /\ pc = "gen" /\ gen.pc = "returned" /\ call = 1
    /\ first_result' = gen.samples
    /\ call' = 2
    /\ \E o \in OutputDirs : gen' = GenCall(seed, o, gen.rng)
    /\ UNCHANGED <<mainVars, classifyVars, patchVars>>

NextGen == GenNext \/ GenCallAgain

SpecGen == InitGen /\ [][NextGen]_vars /\ WF_vars(NextGen)

\* ------------------------------------------------------ the real adapters
\* What the depth files of a frame decode to.  A map of one depth, a map
\* whose depth grows by `step` from pixel to pixel, and a map with some of
\* its pixels replaced by v.
UniformMap(h, w, v) == [h |-> h, w |-> w, px |-> [i \in 1..(h * w) |-> v]]
RampMap(h, w, base, step) ==
    [h |-> h, w |-> w, px |-> [i \in 1..(h * w) |-> base + step * (i - 1)]]
WithHoles(m, holes, v) ==
    [m EXCEPT !.px = [i \in 1..(m.h * m.w) |-> IF i \in holes THEN v ELSE m.px[i]]]

\* lines 213-218: the two maps of an ARKitScenes frame, 16-bit millimetres
\* divided by 1000.0 (a pixel the sensor did not measure is 0)
ArkFrameInputs ==
    {[gt_depth_m |-> UniformMap(5, 5, 0),       lidar_depth_m |-> UniformMap(5, 5, 0)],
     [gt_depth_m |-> UniformMap(5, 5, 20000),   lidar_depth_m |-> UniformMap(5, 5, 21000)],
     [gt_depth_m |-> RampMap(14, 14, 29500, 100), lidar_depth_m |-> UniformMap(5, 5, 0)],
     [gt_depth_m |-> WithHoles(RampMap(14, 14, 139500, 100), {92, 106, 120}, 0),
      lidar_depth_m |-> UniformMap(5, 5, 151000)],
     [gt_depth_m |-> UniformMap(5, 5, 300000),  lidar_depth_m |-> UniformMap(5, 5, 0)]}

\* lines 355-358: the map of a DIODE frame, floating-point metres (any value,
\* also one just below a band edge), and the validity mask when the frame
\* has a mask file: mask |-> {} when it has none, else the pixels masked out
DiodeFrameInputs ==
    {[depth_map |-> WithHoles(RampMap(14, 14, 299996 - 105 * 4, 4), {106}, NaN),
      mask |-> {}, env_type |-> "indoor"],
     [depth_map |-> UniformMap(5, 5, 1200000), mask |-> {13}, env_type |-> "indoor"],
     [depth_map |-> RampMap(14, 14, 2000000 - 105 * 3000, 3000),
      mask |-> {75, 76}, env_type |-> "outdoor"],
     [depth_map |-> UniformMap(14, 14, 6000000), mask |-> {}, env_type |-> "outdoor"],
     [depth_map |-> UniformMap(5, 5, 35000000), mask |-> 1..25, env_type |-> "outdoor"],
     [depth_map |-> UniformMap(5, 5, 35000000), mask |-> {}, env_type |-> "outdoor"]}

\* line 358: np.where(mask, depth_map, 0)
MaskedMap(depth_map, masked_out) == WithHoles(depth_map, masked_out, 0)

\* lines 221, 225, 236: what process_arkitscenes computes from the maps of a frame
ArkFrameStats(f) ==
    [gt_center |-> sample_center_patch(f.gt_depth_m, 2),
     lidar_center |-> sample_center_patch(f.lidar_depth_m, 2),
     p25 |-> compute_percentiles(f.gt_depth_m)[1],
     p75 |-> compute_percentiles(f.gt_depth_m)[2]]

\* lines 356-360, 371: what process_diode computes from the map of a frame
DiodeFrameStats(f) ==
    LET depth_map == MaskedMap(f.depth_map, f.mask)
    IN  [gt_center |-> sample_center_patch(depth_map, 2),
         p25 |-> compute_percentiles(depth_map)[1],
         p75 |-> compute_percentiles(depth_map)[2],
         env_type |-> f.env_type]

\* the frames of the two corpora, as the adapters see them
ArkFrames == {ArkFrameStats(f) : f \in ArkFrameInputs}
DiodeFrames == {DiodeFrameStats(f) : f \in DiodeFrameInputs}

\* Where handling a frame raises, if it gets there: opening or decoding a
\* depth file, parsing the .pincam record, writing the tier-2 or the tier-3
\* artifact; "none" when nothing raises.
ArkFailPoints == {"none", "decode", "intrinsics", "tier2", "tier3"}
DiodeFailPoints == {"none", "decode", "tier2", "tier3"}

\* round(x, 4) if x else None
RoundOpt(x) == IF x = None \/ x = 0 THEN None ELSE Round4(x)

\* a full band makes room by dropping the oldest sample of the list
ContinueEvicting(counts, smp, gt_center, why) ==
    [band_counts |-> counts,
     samples |-> IF why = "no_space" /\ smp # <<>> THEN Tail(smp) ELSE smp,
     raised |-> "none", gt_center |-> gt_center, left_at |-> why]

\* lines 223, 229, 233 (362, 366, 369): continue.  The frame's body ends
\* with the counts and the list as they were; `why` names the test that
\* sent it there.
Continue(counts, smp, gt_center, why) ==
    [band_counts |-> counts, samples |-> smp, raised |-> "none",
     gt_center |-> gt_center, left_at |-> why]

\* a statement of the body raises `kind`: control goes to the except clause
Raise(counts, smp, gt_center, kind) ==
    [band_counts |-> counts, samples |-> smp, raised |-> kind,
     gt_center |-> gt_center, left_at |-> "except"]

\* lines 212-291, the body of the try for one ARKitScenes frame: the counts
\* and the list when the body ends, the exception it ended by ("none" when
\* it ran to its end or to a continue), the centre it sampled (None before
\* line 221) and where it ended
ArkFrameBody(f, fp, counts, smp, frame_ts) ==
    LET gt_center == f.gt_center
        band == classify_distance(gt_center)
        sample == Sample("arkitscenes", FrameId("arkitscenes_V_T", 1, 0, frame_ts),
                         Round4(gt_center), RoundOpt(f.lidar_center),
                         RoundOpt(f.p25), RoundOpt(f.p75), "indoor", band)
    IN  \* lines 213-218: Image.open, np.array
        IF fp = "decode" THEN Raise(counts, smp, None, "OSError")
        \* lines 221-223
        ELSE IF gt_center = None \/ gt_center < 30000
        THEN Continue(counts, smp, gt_center, "invalid_center")
        \* lines 227-229
        ELSE IF band = NoBand THEN Continue(counts, smp, gt_center, "unbandable")
        \* lines 232-233
        ELSE IF QuotaFull(counts, band) THEN Continue(counts, smp, gt_center, "no_space")
        \* lines 240-248: float() of the .pincam record
        ELSE IF fp = "intrinsics" THEN Raise(counts, smp, gt_center, "ValueError")
        \* lines 267-288: the tier-2 and tier-3 writes
        ELSE IF fp \in {"tier2", "tier3"} THEN Raise(counts, smp, gt_center, "OSError")
        \* lines 290-291
        ELSE [band_counts |-> [counts EXCEPT ![band] = @ + 1],
              samples |-> Append(smp, sample), raised |-> "none",
              gt_center |-> gt_center, left_at |-> "appended"]

\* the body with the sample appended as soon as it is built, before the
\* tier writes, and counted after them
DiodeFrameBodyAppendEarly(f, fp, counts, smp, frame_stem) ==
    LET gt_center == f.gt_center
        band == classify_distance(gt_center)
        sample == Sample("diode",
                         FrameId(IF f.env_type = "indoor" THEN "diode_indoor_N_N_T"
                                                          ELSE "diode_outdoor_N_N_T",
                                 1, 1, frame_stem),
                         Round4(gt_center), None,
                         RoundOpt(f.p25), RoundOpt(f.p75), f.env_type, band)
    IN  IF fp = "decode" THEN Raise(counts, smp, None, "OSError")
        ELSE IF gt_center = None \/ gt_center < 30000
        THEN Continue(counts, smp, gt_center, "invalid_center")
        ELSE IF band = NoBand THEN Continue(counts, smp, gt_center, "unbandable")
        ELSE IF QuotaFull(counts, band) THEN Continue(counts, smp, gt_center, "no_space")
        ELSE IF fp \in {"tier2", "tier3"}
        THEN Raise(counts, Append(smp, sample), gt_center, "OSError")
        ELSE [band_counts |-> [counts EXCEPT ![band] = @ + 1],
              samples |-> Append(smp, sample), raised |-> "none",
              gt_center |-> gt_center, left_at |-> "appended"]

\* lines 355-422, the body of the try for one DIODE frame
DiodeFrameBody(f, fp, counts, smp, frame_stem) ==
    LET gt_center == f.gt_center
        band == classify_distance(gt_center)
        sample == Sample("diode",
                         FrameId(IF f.env_type = "indoor" THEN "diode_indoor_N_N_T"
                                                          ELSE "diode_outdoor_N_N_T",
                                 1, 1, frame_stem),
                         Round4(gt_center), None,
                         RoundOpt(f.p25), RoundOpt(f.p75), f.env_type, band)
    IN  \* lines 355-358: np.load
        IF fp = "decode" THEN Raise(counts, smp, None, "OSError")
        \* lines 360-362
        ELSE IF gt_center = None \/ gt_center < 30000
        THEN Continue(counts, smp, gt_center, "invalid_center")
        \* lines 364-366
        ELSE IF band = NoBand THEN Continue(counts, smp, gt_center, "unbandable")
        \* lines 368-369
        ELSE IF QuotaFull(counts, band) THEN Continue(counts, smp, gt_center, "no_space")
        \* lines 398-419: the writes
        ELSE IF fp \in {"tier2", "tier3"} THEN Raise(counts, smp, gt_center, "OSError")
        \* lines 421-422
        ELSE [band_counts |-> [counts EXCEPT ![band] = @ + 1],
              samples |-> Append(smp, sample), raised |-> "none",
              gt_center |-> gt_center, left_at |-> "appended"]

\* the exception classes a frame's failures raise: PIL and numpy raise
\* OSError or ValueError on a bad file, float() raises ValueError
FrameExceptions == {"OSError", "ValueError"}

\* a handler that lets a failed write through: except ValueError
AfterFrameValueErrorOnly(kind, at) ==
    IF kind = "none" \/ kind = "ValueError" THEN at ELSE "crashed"

\* lines 293-294, 424-425: except Exception: continue.  Where main() is
\* after a frame whose body ended by `kind`: still in the adapter's loop, or
\* "crashed", dead of an exception nothing caught.
AfterFrame(kind, at) ==
    IF kind = "none" \/ kind \in FrameExceptions THEN at ELSE "crashed"

\* ------------------------------------------------------------------ main()
\* line 719: len(all_samples) < total_target * 0.8, with the threshold at 90%
UnderThresholdNinety(n) == 10 * n < 9 * total_target

\* line 719: len(all_samples) < total_target * 0.8
UnderThreshold(n) == 5 * n < 4 * total_target

\* lines 725-727 with the sample put in front of the list
BackfillOnePrepending(counts, lst, s) ==
    IF counts[s.distance_band] < BAND_TARGETS[s.distance_band]
    THEN [band_counts |-> [counts EXCEPT ![s.distance_band] = @ + 1],
          all_samples |-> <<s>> \o lst]
    ELSE [band_counts |-> counts, all_samples |-> lst]

\* lines 724-727: one iteration of the backfill loop, for synthetic sample s
BackfillOne(counts, lst, s) ==
    IF counts[s.distance_band] < BAND_TARGETS[s.distance_band]
    THEN [band_counts |-> [counts EXCEPT ![s.distance_band] = @ + 1],
          all_samples |-> Append(lst, s)]
    ELSE [band_counts |-> counts, all_samples |-> lst]

\* lines 694-695: band_counts and all_samples as main() creates them
Init ==
    /\ mode \in {"synthetic", "real"}
    /\ seed \in Seeds
    /\ pc = "start"
    /\ band_counts = ZeroCounts
    /\ all_samples = <<>>
    /\ samples = <<>>
    /\ frame_no = 0
    /\ raised = FALSE
    /\ offered = NoOffer
    /\ bi = 1
    /\ gen = GenIdle
    /\ call = 1
    /\ first_result = <<>>
    /\ cd = 0
    /\ cres = "unset"
    /\ pm = NoMap
    /\ pm_holed = NoMap
    /\ pres = <<>>

\* lines 697-701: synthetic mode calls the generator
MainSynthetic ==
    /\ pc = "start" /\ mode = "synthetic"
    /\ pc' = "gen"
    /\ gen' = GenCall(seed, output_dir, 0)
    /\ UNCHANGED <<mode, seed, offered, band_counts, all_samples, samples, frame_no, raised, bi,
                   harnessVars, classifyVars, patchVars>>

\* line 701: all_samples = the list the generator returned
MainTakeSynthetic ==
    /\ pc = "gen" /\ mode = "synthetic" /\ gen.pc = "returned" /\ call = 1
    /\ all_samples' = gen.samples
    /\ pc' = "write"
    /\ UNCHANGED <<mode, seed, offered, band_counts, samples, frame_no, raised, bi, gen,
                   harnessVars, classifyVars, patchVars>>

\* lines 703-707: real mode enters process_arkitscenes (line 170: samples = [])
MainReal ==
    /\ pc = "start" /\ mode = "real"
    /\ pc' = "ark"
    /\ samples' = <<>>
    /\ frame_no' = 0
    /\ UNCHANGED <<mode, seed, offered, band_counts, all_samples, raised, bi, gen,
                   harnessVars, classifyVars, patchVars>>

\* lines 202-294: process_arkitscenes handles the next frame of the corpus
ArkFrameWith(f, fp) ==
    /\ pc = "ark" /\ frame_no < MaxArkFrames
    /\ LET r == ArkFrameBody(f, fp, band_counts, samples, frame_no + 1)
       IN  /\ band_counts' = r.band_counts
           /\ samples' = r.samples
           /\ raised' = (r.raised # "none")
           /\ offered' = [gt_center |-> r.gt_center, left_at |-> r.left_at]
           /\ pc' = AfterFrame(r.raised, "ark")
    /\ frame_no' = frame_no + 1
    /\ UNCHANGED <<mode, seed, all_samples, bi, gen, harnessVars, classifyVars, patchVars>>

ArkFrame == \E f \in ArkFrames, fp \in ArkFailPoints : ArkFrameWith(f, fp)

\* lines 296, 708: the corpus is walked (or missing, line 176); extend all_samples
ArkReturn ==
    /\ pc = "ark"
    /\ all_samples' = all_samples \o samples
    /\ pc' = "diode"
    /\ samples' = <<>>
    /\ frame_no' = 0
    /\ raised' = FALSE
    /\ offered' = NoOffer
    /\ UNCHANGED <<mode, seed, band_counts, bi, gen, harnessVars, classifyVars, patchVars>>

\* lines 350-425: process_diode handles the next frame of the corpus
DiodeFrameWith(f, fp) ==
    /\ pc = "diode" /\ frame_no < MaxDiodeFrames
    /\ LET r == DiodeFrameBody(f, fp, band_counts, samples, frame_no + 1)
       IN  /\ band_counts' = r.band_counts
           /\ samples' = r.samples
           /\ raised' = (r.raised # "none")
           /\ offered' = [gt_center |-> r.gt_center, left_at |-> r.left_at]
           /\ pc' = AfterFrame(r.raised, "diode")
    /\ frame_no' = frame_no + 1
    /\ UNCHANGED <<mode, seed, all_samples, bi, gen, harnessVars, classifyVars, patchVars>>

DiodeFrame == \E f \in DiodeFrames, fp \in DiodeFailPoints : DiodeFrameWith(f, fp)

\* lines 427, 714: the corpus is walked (or missing, line 325); extend all_samples
DiodeReturn ==
    /\ pc = "diode"
    /\ all_samples' = all_samples \o samples
    /\ pc' = "threshold"
    /\ samples' = <<>>
    /\ frame_no' = 0
    /\ raised' = FALSE
    /\ offered' = NoOffer
    /\ UNCHANGED <<mode, seed, band_counts, bi, gen, harnessVars, classifyVars, patchVars>>

\* lines 718-721: too little real data; the generator is called and runs to
\* its return within this step of main() (its own steps are those of GenNext,
\* taken one at a time in synthetic mode)
BackfillStart ==
    /\ pc = "threshold"
    /\ UnderThreshold(Len(all_samples))
    /\ gen' = generate_synthetic_manifest(output_dir, seed, 0)
    /\ bi' = 1
    /\ pc' = "backfill"
    /\ UNCHANGED <<mode, seed, offered, band_counts, all_samples, samples, frame_no, raised,
                   harnessVars, classifyVars, patchVars>>

\* line 719 is false: no synthetic data
NoBackfill ==
    /\ pc = "threshold"
    /\ ~UnderThreshold(Len(all_samples))
    /\ pc' = "write"
    /\ UNCHANGED <<mode, seed, offered, band_counts, all_samples, samples, frame_no, raised, bi, gen,
                   harnessVars, classifyVars, patchVars>>

\* lines 723-727: the backfill loop takes the next synthetic sample
BackfillStep ==
    /\ pc = "backfill" /\ bi <= Len(gen.samples)
    /\ LET r == BackfillOne(band_counts, all_samples, gen.samples[bi])
       IN  /\ band_counts' = r.band_counts
           /\ all_samples' = r.all_samples
    /\ bi' = bi + 1
    /\ UNCHANGED <<mode, seed, offered, pc, samples, frame_no, raised, gen, harnessVars, classifyVars, patchVars>>

\* line 723: the synthetic list is exhausted
BackfillEnd ==
    /\ pc = "backfill" /\ bi > Len(gen.samples)
    /\ pc' = "write"
    /\ UNCHANGED <<mode, seed, offered, band_counts, all_samples, samples, frame_no, raised, bi, gen,
                   harnessVars, classifyVars, patchVars>>

\* line 730: write_manifest(all_samples, output_dir)
WriteManifest ==
    /\ pc = "write"
    /\ pc' = "done"
    /\ UNCHANGED <<mode, seed, offered, band_counts, all_samples, samples, frame_no, raised, bi, gen,
                   harnessVars, classifyVars, patchVars>>

Next ==
    \/ MainSynthetic \/ GenNext \/ MainTakeSynthetic
    \/ MainReal
    \/ ArkFrame \/ ArkReturn
    \/ DiodeFrame \/ DiodeReturn
    \/ BackfillStart \/ NoBackfill
    \/ BackfillStep \/ BackfillEnd
    \/ WriteManifest

Spec == Init /\ [][Next]_vars

\* --------------------------------------------- classify_distance on its own
\* distances around every band edge, in ticks
EdgeOffsets == {-100, -10, -4, -1, 0, 1, 4, 10, 100}
ClassifyInputs ==
    {DISTANCE_BANDS[b][1] + o : b \in Bands, o \in EdgeOffsets}
    \cup {DISTANCE_BANDS[b][2] + o : b \in Bands, o \in EdgeOffsets}
    \cup {0, 49990, 175000, 550000, 1150000, 3250000, 10000000, 25000000, 99999999}

InitClassify ==
    /\ mode = "synthetic"
    /\ seed = 0
    /\ pc = "classify"
    /\ band_counts = ZeroCounts
    /\ all_samples = <<>>
    /\ samples = <<>>
    /\ frame_no = 0
    /\ raised = FALSE
    /\ offered = NoOffer
    /\ bi = 1
    /\ gen = GenIdle
    /\ call = 1
    /\ first_result = <<>>
    /\ cd \in ClassifyInputs
    /\ cres = "unset"
    /\ pm = NoMap
    /\ pm_holed = NoMap
    /\ pres = <<>>

\* lines 106-111: classify_distance(cd)
Classify ==
    /\ pc = "classify" /\ cres = "unset"
    /\ cres' = classify_distance(cd)
    /\ UNCHANGED <<mainVars, gen, harnessVars, cd, patchVars>>

NextClassify == Classify

SpecClassify == InitClassify /\ [][NextClassify]_vars

\* ------------------------------------------- sample_center_patch on its own
\* depth maps whose pixels are all valid: one depth or many, larger than the
\* patch, the patch's size, or smaller
PatchMaps ==
    {UniformMap(5, 5, 500000), RampMap(5, 5, 400000, 10000),
     UniformMap(6, 5, 500000), RampMap(3, 3, 100000, 300),
     UniformMap(2, 2, 500000), RampMap(1, 4, 20000, 10000)}

\* 0, the two thresholds themselves, and the floats that are not depths
InvalidValues == {0, 10000, 100000000, NaN, PosInf, NegInf}

\* the sets of at most k pixels of S
RECURSIVE HoleSets(_, _)
HoleSets(S, k) ==
    IF k = 0 THEN {{}}
    ELSE LET prev == HoleSets(S, k - 1)
         IN  prev \cup {H \cup {x} : H \in prev, x \in S}

InitPatch ==
    /\ mode = "synthetic"
    /\ seed = 0
    /\ pc = "patch"
    /\ band_counts = ZeroCounts
    /\ all_samples = <<>>
    /\ samples = <<>>
    /\ frame_no = 0
    /\ raised = FALSE
    /\ offered = NoOffer
    /\ bi = 1
    /\ gen = GenIdle
    /\ call = 1
    /\ first_result = <<>>
    /\ cd = 0
    /\ cres = "unset"
    /\ pm \in PatchMaps
    /\ \E v \in InvalidValues :
          \E holes \in HoleSets(1..(pm.h * pm.w), MaxHoles) \cup {1..(pm.h * pm.w)} :
              pm_holed = WithHoles(pm, holes, v)
    /\ pres = <<>>

\* lines 114-130: sample_center_patch(pm) and sample_center_patch(pm_holed),
\* patch_radius at its default
SamplePatch ==
    /\ pc = "patch" /\ pres = <<>>
    /\ pres' = <<sample_center_patch(pm, 2), sample_center_patch(pm_holed, 2)>>
    /\ UNCHANGED <<mainVars, gen, harnessVars, classifyVars, pm, pm_holed>>

NextPatch == SamplePatch

SpecPatch == InitPatch /\ [][NextPatch]_vars

\* ============================================================== properties
CountBand(lst, b) == Cardinality({i \in DOMAIN lst : lst[i].distance_band = b})

IsPrefix(a, b) == Len(a) <= Len(b) /\ SubSeq(b, 1, Len(a)) = a

Occurrences(lst, x) == Cardinality({i \in DOMAIN lst : lst[i] = x})

SamePermuted(a, b) ==
    /\ Len(a) = Len(b)
    /\ \A i \in DOMAIN a : Occurrences(a, a[i]) = Occurrences(b, a[i])

RealFormats == {"arkitscenes_V_T", "diode_indoor_N_N_T", "diode_outdoor_N_N_T"}
FillFormats == {"arkitscenes_indoor_S_C_F", "diode_indoor_S_C_F", "diode_outdoor_S_C_F"}
IsReal(s) == s.frame_id[1] \in RealFormats
RealCount(lst) == Cardinality({i \in DOMAIN lst : IsReal(lst[i])})

\* the samples accepted so far in this run, in the order of acceptance: those
\* main() holds and those the running adapter has not handed over yet
Accepted == all_samples \o samples

\* C1: in every state of a run (after each real frame, each step of each
\* generator pass, each backfill step) no band's accepted count, in main's
\* band_counts or in the generator's, is above that band's target.
C1_QuotaNeverExceeded ==
    \A b \in Bands :
        /\ band_counts[b] <= BAND_TARGETS[b]
        /\ gen.band_counts[b] <= BAND_TARGETS[b]

\* a DIODE frame was turned away while the close band sat at its target
C1_Witness ==
    /\ pc = "diode"
    /\ band_counts["close"] = BAND_TARGETS["close"]
    /\ frame_no > Len(samples)
    /\ \E i \in DOMAIN all_samples : all_samples[i].distance_band = "close"

\* C2: when generate_synthetic_manifest returns, its list holds exactly
\* BAND_TARGETS[b] samples of every band b, and sum(BAND_TARGETS) in all.
C2_SyntheticComplete ==
    gen.pc = "returned" =>
        /\ \A b \in Bands : CountBand(gen.samples, b) = BAND_TARGETS[b]
        /\ Len(gen.samples) = total_target

\* the generator returned a list that the fill pass had to complete
C2_Witness ==
    /\ gen.pc = "returned"
    /\ \E i \in DOMAIN gen.samples : gen.samples[i].frame_id[1] \in FillFormats
    /\ \E i \in DOMAIN gen.samples : gen.samples[i].frame_id[1] \notin FillFormats

\* C3: every sample of the final list has
\* distance_band = classify_distance(ground_truth_center_m), the stored
\* (rounded) centre.
C3_BandMatchesStoredCentre ==
    pc = "done" =>
        \A i \in DOMAIN all_samples :
            all_samples[i].distance_band
                = classify_distance(all_samples[i].ground_truth_center_m)

\* C4: classify_distance returns, for a distance in [0.5, 350.0), the one
\* band whose interval [lo, hi) holds it (the band that starts at the
\* distance when it is a low edge), and None for any other distance.
C4_ClassifyTotal ==
    cres # "unset" =>
        IF 50000 <= cd /\ cd < 35000000
        THEN /\ cres \in Bands
             /\ DISTANCE_BANDS[cres][1] <= cd /\ cd < DISTANCE_BANDS[cres][2]
             /\ Cardinality({b \in Bands :
                    DISTANCE_BANDS[b][1] <= cd /\ cd < DISTANCE_BANDS[b][2]}) = 1
             /\ \A b \in Bands : cd = DISTANCE_BANDS[b][1] => cres = b
        ELSE cres = NoBand

\* 3.0 was classified, and got the band that starts there
C4_Witness == cd = 300000 /\ cres = "near_mid"

\* C5: generate_synthetic_manifest terminates: a running call reaches its
\* return; every iteration of a band's fill loop raises that band's count by
\* one; and a band's fill loop ends after exactly target - (count at loop
\* entry) iterations.
C5_GeneratorTerminates ==
    /\ (gen.pc \notin {"idle", "returned"}) ~> (gen.pc = "returned")
    /\ [][GenFillStep =>
            gen'.band_counts[BandOrder[gen.fb]] = gen.band_counts[BandOrder[gen.fb]] + 1]_vars
    /\ [][GenFillNextBand =>
            gen.fill_iters = BAND_TARGETS[BandOrder[gen.fb]] - gen.fill_entry]_vars

\* a band's fill loop is about to end after at least one iteration
C5_Witness ==
    /\ gen.pc = "fill" /\ gen.fb <= Len(BandOrder)
    /\ gen.fill_iters > 0
    /\ ~FillNeeded(gen.band_counts, BandOrder[gen.fb])

\* C6: no two samples of the final list carry the same frame_id.
C6_FrameIdUnique ==
    pc = "done" =>
        \A i, j \in DOMAIN all_samples :
            i # j => all_samples[i].frame_id # all_samples[j].frame_id

\* C7: in real mode, with fewer real samples than 80% of the total target
\* the generator is called and after the backfill loop every band holds
\* exactly its target; with at least 80% no synthetic sample is appended;
\* and the backfill loop appends a synthetic sample only to a band whose
\* count is below its target.
C7_Final ==
    (mode = "real" /\ pc \in {"write", "done"}) =>
        IF 10 * RealCount(all_samples) < 8 * total_target
        THEN /\ gen.pc = "returned"
             /\ \A b \in Bands :
                    /\ band_counts[b] = BAND_TARGETS[b]
                    /\ CountBand(all_samples, b) = BAND_TARGETS[b]
        ELSE /\ gen.pc = "idle"
             /\ RealCount(all_samples) = Len(all_samples)

C7_Backfill ==
    /\ []C7_Final
    /\ [][(pc = "backfill" /\ all_samples' # all_samples) =>
            /\ all_samples' = Append(all_samples, gen.samples[bi])
            /\ ~IsReal(gen.samples[bi])
            /\ band_counts[gen.samples[bi].distance_band]
                   < BAND_TARGETS[gen.samples[bi].distance_band]]_vars

\* a real run ended with real samples and synthetic samples in its list
C7_Witness ==
    /\ mode = "real" /\ pc = "done"
    /\ RealCount(all_samples) >= 2
    /\ RealCount(all_samples) < Len(all_samples)

\* C8: two calls of generate_synthetic_manifest with the same seed return the
\* same list, whatever output_dir each call is given.
C8_SameSeedSameList ==
    (call = 2 /\ gen.pc = "returned") => gen.samples = first_result

\* the second call has returned a full list
C8_Witness ==
    /\ call = 2 /\ gen.pc = "returned"
    /\ Len(first_result) = total_target
    /\ gen.output_dir = "out_b"

\* C9 as claimed: an accepted sample is never removed and never changes its
\* place among the accepted samples, in main's list and in the generator's.
C9_Original ==
    [][/\ IsPrefix(Accepted, Accepted')
       /\ IsPrefix(gen.samples, gen'.samples)]_vars

\* C9 as amended: main's accepted list only grows at its end; the
\* generator's list only grows at its end until the shuffle of line 632,
\* which permutes it and loses or adds no sample.
C9_AppendOnly ==
    [][/\ IsPrefix(Accepted, Accepted')
       /\ \/ IsPrefix(gen.samples, gen'.samples)
          \/ /\ gen.pc = "fill" /\ gen'.pc = "returned"
             /\ SamePermuted(gen.samples, gen'.samples)]_vars

\* a real run ended with a real sample in front of a backfilled one, the
\* generator's list having been shuffled into an order other than the
\* bands' order
C9_Witness ==
    /\ mode = "real" /\ pc = "done"
    /\ Len(all_samples) >= 2
    /\ IsReal(all_samples[1])
    /\ ~IsReal(all_samples[Len(all_samples)])
    /\ gen.samples[1].distance_band # "close"

\* C10: a real frame whose handling raises changes neither the band counts
\* nor the accepted list, and leaves the adapter in its loop, one frame on.
C10_FailedFrameSkipped ==
    [][(pc \in {"ark", "diode"} /\ frame_no' = frame_no + 1 /\ raised') =>
            /\ band_counts' = band_counts
            /\ samples' = samples
            /\ all_samples' = all_samples
            /\ pc' = pc]_vars

\* after an accepted frame, a frame raised and the adapter went on
C10_Witness ==
    /\ pc = "diode" /\ raised
    /\ frame_no = 2
    /\ Len(samples) = 1

\* C11: every sample of the final list that has both ground_truth_p25_m and
\* ground_truth_p75_m has p25 <= p75, whether the two come from
\* compute_percentiles on a real frame or from the spread of a generator pass.
C11_SpreadOrdered ==
    pc = "done" =>
        \A i \in DOMAIN all_samples :
            (all_samples[i].ground_truth_p25_m # None
                /\ all_samples[i].ground_truth_p75_m # None)
            => all_samples[i].ground_truth_p25_m <= all_samples[i].ground_truth_p75_m

\* a final list with a real sample whose percentiles differ and a synthetic
\* sample whose lower spread was clamped
C11_Witness ==
    /\ pc = "done"
    /\ \E i \in DOMAIN all_samples :
          /\ IsReal(all_samples[i])
          /\ all_samples[i].ground_truth_p25_m # None
          /\ all_samples[i].ground_truth_p25_m < all_samples[i].ground_truth_p75_m
    /\ \E i \in DOMAIN all_samples :
          /\ ~IsReal(all_samples[i])
          /\ all_samples[i].ground_truth_p25_m \in {30000, 50000}

\* the valid pixels left in the centre patch of the map with holes, and the
\* pixels of the centre patch of the all-valid map
RemainingValid == ValidOf(CenterPatch(pm_holed, 2))
CleanPatch == CenterPatch(pm, 2)

\* C12 as claimed: with at least 3 valid pixels left in the patch,
\* sample_center_patch returns what it returns for the all-valid patch; with
\* fewer than 3 it returns None.
C12_Original ==
    pres # <<>> =>
        LET left == Len(RemainingValid)
        IN  /\ left >= 3 => pres[2] = pres[1]
            /\ left < 3 => pres[2] = None

\* C12 amended: with at least 3 valid pixels left, sample_center_patch
\* returns a depth between the smallest and the largest pixel of the
\* all-valid patch, and the all-valid patch's median itself when the pixels
\* of that patch are all equal; with fewer than 3 it returns None.
C12_MedianOfValid ==
    pres # <<>> =>
        LET left == Len(RemainingValid)
            clean == CleanPatch
        IN  /\ left >= 3 =>
                  /\ pres[2] # None
                  /\ \E i \in DOMAIN clean : clean[i] <= pres[2]
                  /\ \E i \in DOMAIN clean : clean[i] >= pres[2]
                  /\ (\A i \in DOMAIN clean : clean[i] = clean[1]) => pres[2] = pres[1]
            /\ left < 3 => pres[2] = None

\* the all-5.0 m map with a hole at the exact centre of its 5 x 5 patch
C12_Witness ==
    /\ pm = UniformMap(5, 5, 500000)
    /\ pm_holed = WithHoles(pm, {13}, 0)
    /\ Len(RemainingValid) = 24
    /\ pres = <<500000, 500000>>
    /\ classify_distance(pres[2]) = "near_mid"

\* C13: every sample of the final list whose dataset is "diode" has no
\* lidar_center_m, whether process_diode, a primary generator pass or the
\* fill pass built it.
C13_DiodeHasNoLidar ==
    pc = "done" =>
        \A i \in DOMAIN all_samples :
            all_samples[i].dataset = "diode" => all_samples[i].lidar_center_m = None

\* a final list with a DIODE sample of process_diode, one of the fill pass
\* below 10 m, and an ARKitScenes sample that does carry a reading
C13_Witness ==
    /\ pc = "done"
    /\ \E i \in DOMAIN all_samples :
          all_samples[i].dataset = "diode" /\ IsReal(all_samples[i])
    /\ \E i \in DOMAIN all_samples :
          /\ all_samples[i].dataset = "diode"
          /\ all_samples[i].frame_id[1] \in FillFormats
          /\ all_samples[i].ground_truth_center_m < 1000000
    /\ \E i \in DOMAIN all_samples :
          all_samples[i].dataset = "arkitscenes" /\ all_samples[i].lidar_center_m # None

\* C14: a real frame whose centre is None or below 0.3 m leaves its body at
\* the first test, one whose centre has no band at the second, one whose
\* band is full at the third; and a frame that leaves at any of the three
\* changes no band count and no list of accepted samples.
C14_RejectedChangesNothing ==
    [][(pc \in {"ark", "diode"} /\ frame_no' = frame_no + 1) =>
          LET c == offered'.gt_center
              band == classify_distance(c)
              invalid == c = None \/ c < 30000
          IN  /\ ~raised' =>
                    /\ invalid => offered'.left_at = "invalid_center"
                    /\ (~invalid /\ band = NoBand) => offered'.left_at = "unbandable"
                    /\ (~invalid /\ band # NoBand /\ band_counts[band] >= BAND_TARGETS[band])
                          => offered'.left_at = "no_space"
              /\ offered'.left_at \in {"invalid_center", "unbandable", "no_space"} =>
                    /\ band_counts' = band_counts
                    /\ samples' = samples
                    /\ all_samples' = all_samples]_vars

\* a frame of a full band was turned away while the adapter's list held the
\* sample that filled the band
C14_Witness ==
    /\ pc = "ark"
    /\ offered.left_at = "no_space"
    /\ Len(samples) = 1
    /\ samples[1].distance_band = classify_distance(offered.gt_center)

\* C15: in real mode, in every state of process_arkitscenes, process_diode
\* and the backfill loop, band_counts[b] is the number of samples accepted so
\* far whose distance_band is b, for every band b.
C15_CountsMatchAccepted ==
    mode = "real" =>
        \A b \in Bands : band_counts[b] = CountBand(Accepted, b)

\* a DIODE frame that passed the three tests raised at a later step, after
\* a frame of each adapter had been accepted
C15_Witness ==
    /\ mode = "real" /\ pc = "diode"
    /\ raised /\ offered.gt_center # None
    /\ Len(all_samples) = 1 /\ Len(samples) = 1

\* C16: every sample the generator tags dataset "arkitscenes" (in the
\* ARKitScenes-like pass or the fill pass) has scene_type "indoor" and a
\* stored ground_truth_center_m in [0.5, 10.0): at least 0.5 and strictly
\* below 10.0.
C16_ArkitscenesIndoorBelowTen ==
    \A i \in DOMAIN gen.samples :
        gen.samples[i].dataset = "arkitscenes" =>
            /\ gen.samples[i].scene_type = "indoor"
            /\ gen.samples[i].ground_truth_center_m >= 50000
            /\ gen.samples[i].ground_truth_center_m < 1000000

====
